---- MODULE Spec2Model ----
(***************************************************************************)
(* Doctor Who Episodes Explorer (script.js): the loader, the validator,    *)
(* the view engine (filter, sort, focus index) and the event handlers,     *)
(* as a state machine.                                                     *)
(*                                                                         *)
(* JavaScript values are records [t, s, n]: t is the type tag, s the       *)
(* characters of a string (a sequence of one-character strings), n the     *)
(* number (for an array: its length).                                      *)
(***************************************************************************)
EXTENDS Integers, Sequences, FiniteSets, TLC

\* ------------------------------------------------------------------ bounds
\* Number of entries of CONFIG.DATA_URLS taken into the model.
NumSources == 2
\* Longest filter text typed into the name filter.
MaxFilterLen == 1

\* ------------------------------------------------------- JavaScript values
Undef == [t |-> "undef", s |-> <<>>, n |-> 0]
Str(chars) == [t |-> "str", s |-> chars, n |-> 0]
Num(k) == [t |-> "num", s |-> <<>>, n |-> k]
Arr(len) == [t |-> "arr", s |-> <<>>, n |-> len]

\* !v  (undefined, '', 0 are falsy; arrays and objects are truthy)
Falsy(v) == \/ v.t = "undef"
            \/ v.t = "str" /\ v.s = <<>>
            \/ v.t = "num" /\ v.n = 0

\* v == null
Nullish(v) == v.t = "undef"

\* UTF-16 code units of the characters the model uses.
CharCode == [c \in {" ", "(", ")", "-", "/", "0", "1", "2", "3", "4", "5", "6", "7", "8", "9",
                    "A", "N", "T", "a", "n", "t", "Σ", "ς", "σ"} |->
               CASE c = " " -> 32 [] c = "(" -> 40 [] c = ")" -> 41
                 [] c = "-" -> 45 [] c = "/" -> 47
                 [] c = "0" -> 48 [] c = "1" -> 49 [] c = "2" -> 50
                 [] c = "3" -> 51 [] c = "4" -> 52 [] c = "5" -> 53
                 [] c = "6" -> 54 [] c = "7" -> 55 [] c = "8" -> 56
                 [] c = "9" -> 57
                 [] c = "A" -> 65 [] c = "N" -> 78 [] c = "T" -> 84
                 [] c = "a" -> 97 [] c = "n" -> 110 [] c = "t" -> 116
                 [] c = "Σ" -> 931 [] c = "ς" -> 962 [] c = "σ" -> 963]

\* String.prototype.toLowerCase, character by character.
LowerChar(c) == CASE c = "A" -> "a" [] c = "N" -> "n" [] c = "T" -> "t"
                  [] c = "Σ" -> "σ"
                  [] OTHER -> c

\* The letters (cased characters) among the characters the model uses.
Cased == {"A", "N", "T", "a", "n", "t", "Σ", "σ", "ς"}

\* Unicode SpecialCasing, Final_Sigma: a capital sigma that follows a cased
\* letter and is not followed by one lower-cases to the final form.
finalSigma(chars, i) ==
    /\ chars[i] = "Σ"
    /\ i > 1 /\ chars[i - 1] \in Cased
    /\ ~(i < Len(chars) /\ chars[i + 1] \in Cased)

\* String.prototype.toLowerCase: the Unicode default case conversion, which
\* is character by character except for the capital sigma.
toLowerCase(chars) ==
    [i \in DOMAIN chars |-> IF finalSigma(chars, i) THEN "ς" ELSE LowerChar(chars[i])]

\* String.prototype.includes
includes(chars, sub) ==
    \E i \in 0..(Len(chars) - Len(sub)) :
        SubSeq(chars, i + 1, i + Len(sub)) = sub

\* a < b on strings: lexicographic by code unit.
StrLess(a, b) ==
    \E k \in 1..(Len(b)) :
        /\ \A j \in 1..(k - 1) : j <= Len(a) /\ a[j] = b[j]
        /\ \/ k > Len(a)
           \/ k <= Len(a) /\ CharCode[a[k]] < CharCode[b[k]]

Digit(d) == CASE d = 0 -> "0" [] d = 1 -> "1" [] d = 2 -> "2" [] d = 3 -> "3"
              [] d = 4 -> "4" [] d = 5 -> "5" [] d = 6 -> "6" [] d = 7 -> "7"
              [] d = 8 -> "8" [] d = 9 -> "9"

RECURSIVE NatToString(_)
NatToString(k) == IF k < 10 THEN <<Digit(k)>>
                  ELSE Append(NatToString(k \div 10), Digit(k % 10))

\* Number.prototype.toString / String.prototype.toString
toString(v) == IF v.t = "str" THEN v.s
               ELSE IF v.n < 0 THEN <<"-">> \o NatToString(-v.n)
               ELSE NatToString(v.n)

\* ---------------------------------------------------------- episode records
\* ep.doctor / ep.companion: an object with an actor, or absent.
NoPerson == [t |-> "undef", actor |-> Undef, secondary |-> Undef]
Person(actor, secondary) == [t |-> "obj", actor |-> actor, secondary |-> secondary]

\* A JSON array element that is an episode object; absent fields are Undef.
Episode(rank, title, series, era, date, director, writer, doctor, companion, cast) ==
    [t |-> "obj", rank |-> rank, title |-> title, series |-> series, era |-> era,
     broadcast_date |-> date, director |-> director, writer |-> writer,
     doctor |-> doctor, companion |-> companion, cast |-> cast]

\* The undefined that flatMap yields for a body without an episodes property.
NullEpisode == [Episode(Undef, Undef, Undef, Undef, Undef, Undef, Undef,
                        NoPerson, NoPerson, Undef) EXCEPT !.t = "undef"]

\* Every text field present, no "n" in any of the five searched fields; the
\* era holds a comma, a double quote and a newline.
EpFull == Episode(Num(2), Str(<<"T", "a">>), Num(1), Str(<<"a", ",", "\"", "\n">>),
                  Str(<<"1", "9", "6", "3">>), Str(<<"A">>), Str(<<"t">>),
                  Person(Str(<<"T">>), Num(4)), Person(Str(<<"a">>), Str(<<"A">>)),
                  Arr(2))
\* Doctor, companion, writer, director, cast absent; a date in the future.
EpSparse == Episode(Num(1), Str(<<"n">>), Num(-1), Str(<<"a">>),
                    Str(<<"2", "9", "9", "9">>), Undef, Undef,
                    NoPerson, NoPerson, Undef)
\* Same rank as EpFull, an empty actor name, an empty cast; only the writer
\* holds a "t".
EpDup == Episode(Num(2), Str(<<"A">>), Num(1), Undef,
                 Undef, Undef, Str(<<"T">>),
                 Person(Str(<<>>), Undef), NoPerson, Arr(0))
\* Every field absent.
EpEmpty == Episode(Undef, Undef, Undef, Undef, Undef, Undef, Undef,
                   NoPerson, NoPerson, Undef)
\* A title that is a number, not a string.
EpNumTitle == Episode(Num(3), Num(7), Num(1), Str(<<"a">>),
                      Str(<<"1", "9", "6", "3">>), Undef, Undef,
                      NoPerson, NoPerson, Undef)

\* A parsed response body: { episodes: [...] } or an object without episodes.
Body(eps) == [hasEpisodes |-> TRUE, episodes |-> eps]
BodyNoEpisodes == [hasEpisodes |-> FALSE, episodes |-> <<>>]

\* The bodies a source may answer with.
Bodies == {Body(<<>>), Body(<<EpFull, EpSparse>>), Body(<<EpEmpty, EpDup>>),
           Body(<<EpNumTitle>>), BodyNoEpisodes}

\* The th[data-sort] headers of the table.
SortFields == {"rank", "doctor", "cast_count"}

\* ------------------------------------------------------- utility functions
NA == Str(<<"N", "/", "A">>)

\* `${actor} (${secondary || 'N/A'})`
withSecondary(p) ==
    Str(toString(p.actor) \o <<" ", "(">>
        \o toString(IF Falsy(p.secondary) THEN NA ELSE p.secondary) \o <<")">>)

\* formatDoctor(d, includeInc): 'N/A' without an actor, else the actor alone
\* (returned as it is, whatever its type) or with the incarnation.
formatDoctor(d, includeInc) ==
    IF Falsy(d.actor) THEN NA
    ELSE IF includeInc THEN withSecondary(d) ELSE d.actor

\* formatCompanion(c, includeChar)
formatCompanion(c, includeChar) ==
    IF Falsy(c.actor) THEN NA
    ELSE IF includeChar THEN withSecondary(c) ELSE c.actor

\* ep.title?.toLowerCase() ?? ''  (likewise writer, director)
lowerOrEmpty(v) == IF Nullish(v) THEN <<>> ELSE toLowerCase(v.s)

\* x.toLowerCase is not a function: x is neither nullish nor a string.
NotLowerable(v) == ~Nullish(v) /\ v.t # "str"

\* The filter callback throws a TypeError on this episode.
filterThrows(ep) ==
    \/ NotLowerable(ep.title)
    \/ formatDoctor(ep.doctor, FALSE).t # "str"
    \/ formatCompanion(ep.companion, FALSE).t # "str"
    \/ NotLowerable(ep.writer)
    \/ NotLowerable(ep.director)

\* The filter callback with the writer left out of the searched fields.
matches_noWriter(ep, filterText) ==
    \/ includes(lowerOrEmpty(ep.title), filterText)
    \/ includes(toLowerCase(formatDoctor(ep.doctor, FALSE).s), filterText)
    \/ includes(toLowerCase(formatCompanion(ep.companion, FALSE).s), filterText)
    \/ includes(lowerOrEmpty(ep.director), filterText)

\* The filter callback of applyFiltersAndSort.
matches(ep, filterText) ==
    LET title == lowerOrEmpty(ep.title)
        doctor == toLowerCase(formatDoctor(ep.doctor, FALSE).s)
        companion == toLowerCase(formatCompanion(ep.companion, FALSE).s)
        writer == lowerOrEmpty(ep.writer)
        director == lowerOrEmpty(ep.director)
    IN  \/ includes(title, filterText)
        \/ includes(doctor, filterText)
        \/ includes(companion, filterText)
        \/ includes(writer, filterText)
        \/ includes(director, filterText)

\* ep[field] for the headers handled by the default branch of getSortValue.
rawField(ep, field) == CASE field = "rank" -> ep.rank
                         [] field = "title" -> ep.title
                         [] field = "series" -> ep.series
                         [] field = "era" -> ep.era
                         [] field = "director" -> ep.director
                         [] field = "writer" -> ep.writer

\* getSortValue(ep, field): a string key (Str) or a number key (Num).
getSortValue(ep, field) ==
    CASE field = "doctor" -> Str(toLowerCase(formatDoctor(ep.doctor, FALSE).s))
      [] field = "companion" -> Str(toLowerCase(formatCompanion(ep.companion, FALSE).s))
      [] field = "cast_count" -> IF Nullish(ep.cast) THEN Num(0) ELSE Num(ep.cast.n)
      [] OTHER -> IF Falsy(rawField(ep, field)) THEN Str(<<>>)
                  ELSE Str(toLowerCase(toString(rawField(ep, field))))

\* valA < valB
KeyLess(a, b) == IF a.t = "str" THEN StrLess(a.s, b.s) ELSE a.n < b.n

\* The comparator handed to Array.prototype.sort.
compare(a, b, field, ascending) ==
    LET valA == getSortValue(a, field)
        valB == getSortValue(b, field)
        direction == IF ascending THEN 1 ELSE -1
    IN  (IF KeyLess(valA, valB) THEN -1 ELSE IF KeyLess(valB, valA) THEN 1 ELSE 0)
            * direction

\* Array.prototype.sort is stable: each element goes behind every element
\* already placed that the comparator does not put after it.
insertSorted(sorted, i, eps, field, ascending) ==
    LET k == Cardinality({j \in DOMAIN sorted :
                 compare(eps[sorted[j]], eps[i], field, ascending) <= 0})
    IN  SubSeq(sorted, 1, k) \o <<i>> \o SubSeq(sorted, k + 1, Len(sorted))

\* A descending sort done as an ascending sort followed by reverse().
RECURSIVE sortBy_reverseForDescending(_, _, _, _)
sortBy_reverseForDescending(idx, eps, field, ascending) ==
    IF ~ascending
    THEN LET asc == sortBy_reverseForDescending(idx, eps, field, TRUE)
         IN  [k \in DOMAIN asc |-> asc[Len(asc) + 1 - k]]
    ELSE IF idx = <<>> THEN <<>>
    ELSE insertSorted(sortBy_reverseForDescending(SubSeq(idx, 1, Len(idx) - 1),
                                                  eps, field, ascending),
                      idx[Len(idx)], eps, field, ascending)

RECURSIVE sortBy(_, _, _, _)
sortBy(idx, eps, field, ascending) ==
    IF idx = <<>> THEN <<>>
    ELSE insertSorted(sortBy(SubSeq(idx, 1, Len(idx) - 1), eps, field, ascending),
                      idx[Len(idx)], eps, field, ascending)

\* state.episodes.filter(...): the positions (object references) of the
\* episodes that pass, in dataset order.
filterEpisodes(eps, filterText) ==
    SelectSeq([i \in 1..Len(eps) |-> i], LAMBDA i : matches(eps[i], filterText))

\* The filter of applyFiltersAndSort throws.
applyThrows(eps) == \E i \in 1..Len(eps) : filterThrows(eps[i])

\* processedData of applyFiltersAndSort.
processedData(eps, name, srt) ==
    sortBy(filterEpisodes(eps, toLowerCase(name)), eps, srt.field, srt.ascending)

\* ------------------------------------------------------------ normalizeDate
Digits == {"0", "1", "2", "3", "4", "5", "6", "7", "8", "9"}
DigitVal(c) == CharCode[c] - CharCode["0"]

\* /^\d{4}$/.test(dateStr)
isFourDigits(chars) == Len(chars) = 4 /\ \A i \in 1..4 : chars[i] \in Digits

NullDate == [isDate |-> FALSE, year |-> 0, month |-> 0, day |-> 0]

\* new Date(dateStr, 0, 1): the string becomes a number, and a year number
\* from 0 to 99 means 1900 + year.
dateFromYearString(chars) ==
    LET y == DigitVal(chars[1]) * 1000 + DigitVal(chars[2]) * 100
               + DigitVal(chars[3]) * 10 + DigitVal(chars[4])
    IN  [isDate |-> TRUE, year |-> IF y <= 99 THEN 1900 + y ELSE y,
         month |-> 0, day |-> 1]

\* normalizeDate(dateStr) for the dates the bodies carry: absent, or "YYYY".
normalizeDate(v) ==
    IF Falsy(v) THEN NullDate
    ELSE IF isFourDigits(v.s) THEN dateFromYearString(v.s)
    ELSE NullDate

\* The year of `new Date()` in validateData.
NowYear == 2026

\* date > now, for a date that is January 1, 00:00 of its year.
afterNow(d) == d.isDate /\ d.year > NowYear

\* ------------------------------------------------------------ validateData
requiredFields == <<"rank", "title", "era", "broadcast_date">>

requiredValue(ep, f) == CASE f = "rank" -> ep.rank [] f = "title" -> ep.title
                          [] f = "era" -> ep.era
                          [] f = "broadcast_date" -> ep.broadcast_date

Warning(rule, index, detail) == [rule |-> rule, index |-> index, detail |-> detail]

\* episode[field] == null || episode[field] === ''
missingFields(ep, index) ==
    LET idx == SelectSeq(<<1, 2, 3, 4>>, LAMBDA k :
                   LET v == requiredValue(ep, requiredFields[k])
                   IN  Nullish(v) \/ (v.t = "str" /\ v.s = <<>>))
    IN  [k \in DOMAIN idx |-> Warning("missing", index, requiredFields[idx[k]])]

\* typeof episode.rank !== 'number' || !isFinite(episode.rank)
invalidRank(ep) == ep.rank.t # "num"

\* The warnings one episode adds, given the ranks seen before it.
episodeWarnings(ep, index, seenRanks) ==
    missingFields(ep, index)
    \o (IF afterNow(normalizeDate(ep.broadcast_date))
        THEN <<Warning("future", index, "")>> ELSE <<>>)
    \o (IF invalidRank(ep) THEN <<Warning("invalidRank", index, "")>>
        ELSE IF ep.rank.n \in seenRanks
             THEN <<Warning("duplicateRank", index, toString(ep.rank))>>
        ELSE <<>>)
    \o (IF ep.series.t = "num" /\ ep.series.n < 0
        THEN <<Warning("negativeSeries", index, "")>> ELSE <<>>)

\* A seenRanks that only remembers the rank of the episode just before.
RECURSIVE seenAfter_previousOnly(_, _)
seenAfter_previousOnly(eps, k) ==
    IF k = 0 \/ invalidRank(eps[k]) THEN {} ELSE {eps[k].rank.n}

\* seenRanks after the first k episodes.
RECURSIVE seenAfter(_, _)
seenAfter(eps, k) ==
    IF k = 0 THEN {}
    ELSE seenAfter(eps, k - 1)
            \cup (IF invalidRank(eps[k]) THEN {} ELSE {eps[k].rank.n})

\* validateData(episodes): the warnings, in record order then rule order.
RECURSIVE warningsUpTo(_, _)
warningsUpTo(eps, k) ==
    IF k = 0 THEN <<>>
    ELSE warningsUpTo(eps, k - 1)
            \o episodeWarnings(eps[k], k - 1, seenAfter(eps, k - 1))

validateData(eps) == warningsUpTo(eps, Len(eps))

\* A validator that dereferences the rank (episode.rank.toString()).
validateThrows_onMissingRank(eps) ==
    \E i \in 1..Len(eps) : eps[i].t # "obj" \/ Nullish(eps[i].rank)

\* episode.title of a null or undefined array element: a TypeError.
validateThrows(eps) == \E i \in 1..Len(eps) : eps[i].t # "obj"

\* ------------------------------------------------------------- exportToCSV
\* String(value ?? '')
stringValue(v) == IF Nullish(v) THEN <<>> ELSE toString(v)

\* A replace that leaves the quotes as they are.
RECURSIVE doubleQuotes_identity(_)
doubleQuotes_identity(chars) == chars

\* stringValue.replace(/"/g, '""')
RECURSIVE doubleQuotes(_)
doubleQuotes(chars) ==
    IF chars = <<>> THEN <<>>
    ELSE (IF Head(chars) = "\"" THEN <<"\"", "\"">> ELSE <<Head(chars)>>)
            \o doubleQuotes(Tail(chars))

\* escapeCSV(value)
escapeCSV(v) ==
    LET sv == stringValue(v)
    IN  IF \E i \in DOMAIN sv : sv[i] \in {"\"", ",", "\n"}
        THEN <<"\"">> \o doubleQuotes(sv) \o <<"\"">>
        ELSE sv

\* getYear(dateStr): the year number, or 'N/A'.
getYear(v) == LET date == normalizeDate(v)
              IN  IF date.isDate THEN Num(date.year) ELSE NA

headers == <<Str(<<"R", "a", "n", "k">>), Str(<<"T", "i", "t", "l", "e">>),
             Str(<<"S", "e", "r", "i", "e", "s">>), Str(<<"E", "r", "a">>),
             Str(<<"Y", "e", "a", "r">>),
             Str(<<"D", "i", "r", "e", "c", "t", "o", "r">>),
             Str(<<"W", "r", "i", "t", "e", "r">>),
             Str(<<"D", "o", "c", "t", "o", "r">>),
             Str(<<"C", "o", "m", "p", "a", "n", "i", "o", "n">>),
             Str(<<"C", "a", "s", "t", " ", "C", "o", "u", "n", "t">>)>>

\* One element of dataRows.
dataRow(ep) ==
    <<ep.rank, ep.title, ep.series, ep.era, getYear(ep.broadcast_date),
      ep.director, ep.writer, formatDoctor(ep.doctor, TRUE),
      formatCompanion(ep.companion, TRUE),
      IF Nullish(ep.cast) THEN Num(0) ELSE Num(ep.cast.n)>>

\* Array.prototype.join on strings.
RECURSIVE join(_, _)
join(strings, sep) ==
    IF strings = <<>> THEN <<>>
    ELSE IF Len(strings) = 1 THEN strings[1]
    ELSE strings[1] \o <<sep>> \o join(Tail(strings), sep)

\* row.map(escapeCSV).join(',')
csvLine(row) == join([k \in DOMAIN row |-> escapeCSV(row[k])], ",")

\* An export that maps state.episodes instead of state.filtered.
csvContent_allEpisodes(eps, visible) ==
    join(<<csvLine(headers)>> \o [k \in DOMAIN eps |-> csvLine(dataRow(eps[k]))],
         "\n")

\* csvContent of exportToCSV for the visible sequence (positions in eps).
csvContent(eps, visible) ==
    join(<<csvLine(headers)>>
            \o [k \in DOMAIN visible |-> csvLine(dataRow(eps[visible[k]]))],
         "\n")

\* ------------------------------------------------------------------- state
VARIABLES
    pc,               \* where loadEpisodes stands: start, fetching, parsing, done
    fetchState,       \* per source: the fetch promise
    jsonState,        \* per source: the res.json() promise
    bodies,           \* per source: the parsed body
    episodes,         \* state.episodes
    filtered,         \* state.filtered, as positions in state.episodes
    sort,             \* state.sort
    filterName,       \* state.filters.name
    focusedRowIndex,  \* state.focusedRowIndex
    rows,             \* number of rows of #episodes-body (each with its click listener)
    loadingDisplay,   \* #loading style.display
    tableDisplay,     \* #episodes-table style.display
    errorDisplay,     \* #error style.display
    errorText,        \* #error textContent
    warningsBanner,   \* #validation-warnings: the count shown, 0 when never shown
    noResultsDisplay, \* #no-results style.display
    lastEvent,        \* history: the event handled last
    beforeSort,       \* history: state.filtered and state.sort.field as they were
                      \* before the header activation handled last
    sortRun,          \* history: how many times in a row (up to 2) the header of
                      \* lastEvent has been activated
    download,         \* the text of the Blob handed to the browser by the event
                      \* handled last (empty when it was no export)
    call,             \* the arguments of a utility function called on its own
    result            \* what that call returned

vars == <<pc, fetchState, jsonState, bodies, episodes, filtered, sort, filterName,
          focusedRowIndex, rows, loadingDisplay, tableDisplay, errorDisplay,
          errorText, warningsBanner, noResultsDisplay, lastEvent, beforeSort,
          sortRun, download, call, result>>

\* The variables of the utility-function calls; the page leaves them alone.
pureVars == <<call, result>>

DATA_URLS == 1..NumSources

FilterChars == {"n", "T"}

RECURSIVE TextsUpTo(_)
TextsUpTo(k) == IF k = 0 THEN {<<>>}
                ELSE TextsUpTo(k - 1)
                        \cup {Append(t, c) : t \in TextsUpTo(k - 1), c \in FilterChars}

\* The values typed into #name-filter.
FilterTexts == TextsUpTo(MaxFilterLen)

Event(kind, arg) == [kind |-> kind, arg |-> arg]

NoSnapshot == [filtered |-> <<>>, field |-> ""]

\* What an event other than a header activation leaves in the history.
noSortHistory == beforeSort' = NoSnapshot /\ sortRun' = 0

NoDetail == [kind |-> "none", src |-> 0]
\* error.message of a rejected fetch, of the Error thrown for a response that
\* is not ok (it carries that response's url and statusText), of a rejected
\* res.json(), and of a TypeError.
FetchRejected(i) == [kind |-> "fetchRejected", src |-> i]
NotOk(i) == [kind |-> "notOk", src |-> i]
JsonRejected(i) == [kind |-> "jsonRejected", src |-> i]
TypeErrorDetail == [kind |-> "TypeError", src |-> 0]

NoCall == [fn |-> "none"]
NotRun == [ran |-> FALSE]
Returned(value) == [ran |-> TRUE, value |-> value]

\* The page before DOMContentLoaded.
InitPage ==
    /\ pc = "start"
    /\ fetchState = [i \in DATA_URLS |-> "none"]
    /\ jsonState = [i \in DATA_URLS |-> "none"]
    /\ bodies = [i \in DATA_URLS |-> Body(<<>>)]
    /\ episodes = <<>>
    /\ filtered = <<>>
    /\ sort = [field |-> "rank", ascending |-> TRUE]
    /\ filterName = <<>>
    /\ focusedRowIndex = -1
    /\ rows = 0
    /\ loadingDisplay = ""
    /\ tableDisplay = ""
    /\ errorDisplay = ""
    /\ errorText = [userMessage |-> FALSE, details |-> NoDetail]
    /\ warningsBanner = 0
    /\ noResultsDisplay = ""
    /\ lastEvent = Event("none", "")
    /\ beforeSort = NoSnapshot
    /\ sortRun = 0
    /\ download = <<>>

Init == InitPage /\ call = NoCall /\ result = NotRun

\* ------------------------------------------------------------ DOM helpers
\* A showLoading(false) that shows the table and leaves #loading alone.
showLoadingFalse_tableOnly(loadingBefore) ==
    /\ loadingDisplay' = loadingBefore
    /\ tableDisplay' = "table"

\* showLoading(false), the finally block of loadEpisodes; loadingBefore is
\* the display of #loading when it is called.
showLoadingFalse(loadingBefore) ==
    /\ loadingDisplay' = "none"
    /\ tableDisplay' = "table"

\* catch: showError(details), then finally: showLoading(false).  showError
\* writes the banner and sets the table and the spinner to 'none';
\* showLoading(false) runs after it and writes both displays again.
catchAndFinally(details) ==
    /\ errorText' = [userMessage |-> TRUE, details |-> details]
    /\ errorDisplay' = "block"
    /\ showLoadingFalse("none")
    /\ pc' = "done"

\* applyFiltersAndSort() without the focus reset of its first line.
applyFiltersAndSort_keepFocus(eps, name, srt) ==
    /\ focusedRowIndex' = focusedRowIndex
    /\ filtered' = processedData(eps, name, srt)
    /\ rows' = Len(filtered')
    /\ noResultsDisplay' = IF Len(filtered') = 0 THEN "block" ELSE "none"

\* applyFiltersAndSort() on the dataset eps with filter text name and sort srt,
\* when its filter does not throw: focus reset, state.filtered replaced,
\* displayEpisodes renders one row per visible episode.
applyFiltersAndSort(eps, name, srt) ==
    /\ focusedRowIndex' = -1
    /\ filtered' = processedData(eps, name, srt)
    /\ rows' = Len(filtered')
    /\ noResultsDisplay' = IF Len(filtered') = 0 THEN "block" ELSE "none"

\* applyFiltersAndSort() when its filter throws: only the focus reset happened.
applyFiltersAndSortThrown ==
    /\ focusedRowIndex' = -1
    /\ UNCHANGED <<filtered, rows, noResultsDisplay>>

\* A recomputation that sorts state.episodes itself and filters the result.
applyInListener_sortInPlace(eps, name, srt) ==
    LET order == sortBy([i \in 1..Len(eps) |-> i], eps, srt.field, srt.ascending)
        sorted == [k \in DOMAIN order |-> eps[order[k]]]
    IN  /\ episodes' = sorted
        /\ IF applyThrows(eps) THEN applyFiltersAndSortThrown
           ELSE applyFiltersAndSort(sorted, name, srt)

\* applyFiltersAndSort() called from an event listener on state.episodes = eps:
\* filter() and sort() work on a new array, so state.episodes stays as it is;
\* an exception leaves the listener.
applyInListener(eps, name, srt) ==
    /\ episodes' = eps
    /\ IF applyThrows(eps) THEN applyFiltersAndSortThrown
       ELSE applyFiltersAndSort(eps, name, srt)

\* What loadEpisodes writes, state.episodes aside.
loadProgress == <<pc, fetchState, jsonState, bodies, loadingDisplay,
                  tableDisplay, errorDisplay, errorText, warningsBanner>>

loadVars == <<pc, fetchState, jsonState, bodies, episodes, loadingDisplay,
              tableDisplay, errorDisplay, errorText, warningsBanner>>

\* jsonDataArray.flatMap(data => data.episodes)
RECURSIVE flatMapEpisodes(_, _)
flatMapEpisodes(bs, k) ==
    IF k = 0 THEN <<>>
    ELSE flatMapEpisodes(bs, k - 1)
            \o (IF bs[k].hasEpisodes THEN bs[k].episodes ELSE <<NullEpisode>>)

\* ------------------------------------------------------------ loadEpisodes
\* DOMContentLoaded: setupEventListeners(), then loadEpisodes() up to its
\* first await: showLoading(true) and one fetch per URL.
DOMContentLoaded ==
    /\ pc = "start"
    /\ pc' = "fetching"
    /\ loadingDisplay' = "block"
    /\ tableDisplay' = "none"
    /\ errorDisplay' = "none"
    /\ fetchState' = [i \in DATA_URLS |-> "pending"]
    /\ lastEvent' = Event("load", "")
    /\ download' = <<>>
    /\ UNCHANGED pureVars
    /\ noSortHistory
    /\ UNCHANGED <<jsonState, bodies, episodes, filtered, sort, filterName,
                   focusedRowIndex, rows, errorText, warningsBanner, noResultsDisplay>>

\* The last response, in URL order, that is not ok (0 if all are ok).
lastNotOk(fs) ==
    IF \E i \in DATA_URLS : fs[i] = "notok"
    THEN CHOOSE i \in DATA_URLS :
            fs[i] = "notok" /\ \A j \in DATA_URLS : fs[j] = "notok" => i >= j
    ELSE 0

\* The first response, in URL order, that is not ok (0 if all are ok).
firstNotOk(fs) ==
    IF \E i \in DATA_URLS : fs[i] = "notok"
    THEN CHOOSE i \in DATA_URLS :
            fs[i] = "notok" /\ \A j \in DATA_URLS : fs[j] = "notok" => i <= j
    ELSE 0

\* A fetch resolves with a response (ok or not).  When it is the last one,
\* Promise.all resolves and loadEpisodes goes on: the ok check, then
\* res.json() on every response.
FetchResolve(i, ok) ==
    /\ pc = "fetching"
    /\ fetchState[i] = "pending"
    /\ fetchState' = [fetchState EXCEPT ![i] = IF ok THEN "ok" ELSE "notok"]
    /\ IF \E j \in DATA_URLS : fetchState'[j] = "pending"
       THEN UNCHANGED <<pc, jsonState, loadingDisplay, tableDisplay,
                        errorDisplay, errorText>>
       ELSE IF firstNotOk(fetchState') # 0
       THEN /\ catchAndFinally(NotOk(firstNotOk(fetchState')))
            /\ UNCHANGED jsonState
       ELSE /\ jsonState' = [j \in DATA_URLS |-> "pending"]
            /\ pc' = "parsing"
            /\ UNCHANGED <<loadingDisplay, tableDisplay, errorDisplay, errorText>>
    /\ lastEvent' = Event("load", "")
    /\ download' = <<>>
    /\ UNCHANGED pureVars
    /\ noSortHistory
    /\ UNCHANGED <<bodies, episodes, filtered, sort, filterName, focusedRowIndex,
                   rows, warningsBanner, noResultsDisplay>>

\* A fetch rejects: Promise.all rejects at once, catch and finally run.
FetchReject(i) ==
    /\ pc = "fetching"
    /\ fetchState[i] = "pending"
    /\ fetchState' = [fetchState EXCEPT ![i] = "rejected"]
    /\ catchAndFinally(FetchRejected(i))
    /\ lastEvent' = Event("load", "")
    /\ download' = <<>>
    /\ UNCHANGED pureVars
    /\ noSortHistory
    /\ UNCHANGED <<jsonState, bodies, episodes, filtered, sort, filterName,
                   focusedRowIndex, rows, warningsBanner, noResultsDisplay>>

\* A load whose first view is computed with the default filter and sort.
finishLoad_defaultView(bs) ==
    LET allEpisodes == flatMapEpisodes(bs, NumSources)
        warnings == validateData(allEpisodes)
    IN  IF validateThrows(allEpisodes)
        THEN /\ catchAndFinally(TypeErrorDetail)
             /\ UNCHANGED <<episodes, filtered, focusedRowIndex, rows,
                            warningsBanner, noResultsDisplay>>
        ELSE /\ warningsBanner' = Len(warnings)
             /\ episodes' = allEpisodes
             /\ IF applyThrows(allEpisodes)
                THEN /\ applyFiltersAndSortThrown
                     /\ catchAndFinally(TypeErrorDetail)
                ELSE /\ applyFiltersAndSort(allEpisodes, <<>>,
                                            [field |-> "rank", ascending |-> TRUE])
                     /\ showLoadingFalse(loadingDisplay)
                     /\ pc' = "done"
                     /\ UNCHANGED <<errorDisplay, errorText>>

\* The rest of loadEpisodes once every body is parsed: flatMap, validateData,
\* the warnings banner, state.episodes, applyFiltersAndSort, catch, finally.
finishLoad(bs) ==
    LET allEpisodes == flatMapEpisodes(bs, NumSources)
        warnings == validateData(allEpisodes)
    IN  IF validateThrows(allEpisodes)
        THEN /\ catchAndFinally(TypeErrorDetail)
             /\ UNCHANGED <<episodes, filtered, focusedRowIndex, rows,
                            warningsBanner, noResultsDisplay>>
        ELSE /\ warningsBanner' = Len(warnings)
             /\ episodes' = allEpisodes
             /\ IF applyThrows(allEpisodes)
                THEN /\ applyFiltersAndSortThrown
                     /\ catchAndFinally(TypeErrorDetail)
                ELSE /\ applyFiltersAndSort(allEpisodes, filterName, sort)
                     /\ showLoadingFalse(loadingDisplay)
                     /\ pc' = "done"
                     /\ UNCHANGED <<errorDisplay, errorText>>

\* A res.json() promise resolves with the parsed body.
JsonResolve(i, body) ==
    /\ pc = "parsing"
    /\ jsonState[i] = "pending"
    /\ jsonState' = [jsonState EXCEPT ![i] = "parsed"]
    /\ bodies' = [bodies EXCEPT ![i] = body]
    /\ IF \E j \in DATA_URLS : jsonState'[j] = "pending"
       THEN UNCHANGED <<pc, episodes, filtered, focusedRowIndex, rows,
                        loadingDisplay, tableDisplay, errorDisplay, errorText,
                        warningsBanner, noResultsDisplay>>
       ELSE finishLoad(bodies')
    /\ lastEvent' = Event("load", "")
    /\ download' = <<>>
    /\ UNCHANGED pureVars
    /\ noSortHistory
    /\ UNCHANGED <<fetchState, sort, filterName>>

\* A res.json() promise rejects (the body is not valid JSON).
JsonReject(i) ==
    /\ pc = "parsing"
    /\ jsonState[i] = "pending"
    /\ jsonState' = [jsonState EXCEPT ![i] = "rejected"]
    /\ catchAndFinally(JsonRejected(i))
    /\ lastEvent' = Event("load", "")
    /\ download' = <<>>
    /\ UNCHANGED pureVars
    /\ noSortHistory
    /\ UNCHANGED <<fetchState, bodies, episodes, filtered, sort, filterName,
                   focusedRowIndex, rows, warningsBanner, noResultsDisplay>>

\* ----------------------------------------------------------- event listeners
listening == pc # "start"

\* An input listener that stores the text and recomputes nothing.
FilterInput_noRecompute(text) ==
    /\ listening
    /\ filterName' = text
    /\ lastEvent' = Event("input", IF focusedRowIndex >= 0 THEN "focused" ELSE "")
    /\ download' = <<>>
    /\ UNCHANGED pureVars
    /\ noSortHistory
    /\ UNCHANGED <<loadVars, sort, filtered, focusedRowIndex, rows, noResultsDisplay>>

\* 'input' on #name-filter; the event records whether a row had the focus.
FilterInput(text) ==
    /\ listening
    /\ filterName' = text
    /\ applyInListener(episodes, text, sort)
    /\ lastEvent' = Event("input", IF focusedRowIndex >= 0 THEN "focused" ELSE "")
    /\ download' = <<>>
    /\ UNCHANGED pureVars
    /\ noSortHistory
    /\ UNCHANGED <<loadProgress, sort>>

\* A listener that sets descending on a repeated click instead of toggling,
\* and keeps the direction when the field changes.
headerClick_noToggle(field) ==
    /\ sort' = IF sort.field = field
               THEN [sort EXCEPT !.ascending = FALSE]
               ELSE [field |-> field, ascending |-> sort.ascending]
    /\ applyInListener(episodes, filterName, sort')
    /\ lastEvent' = Event("sort", field)
    /\ download' = <<>>
    /\ UNCHANGED pureVars
    /\ beforeSort' = [filtered |-> filtered, field |-> sort.field]
    /\ sortRun' = IF lastEvent = Event("sort", field) /\ sortRun = 1 THEN 2 ELSE 1
    /\ UNCHANGED <<loadProgress, filterName>>

\* The click listener of the header th[data-sort=field].
headerClick(field) ==
    /\ sort' = IF sort.field = field
               THEN [sort EXCEPT !.ascending = ~sort.ascending]
               ELSE [field |-> field, ascending |-> TRUE]
    /\ applyInListener(episodes, filterName, sort')
    /\ lastEvent' = Event("sort", field)
    /\ download' = <<>>
    /\ UNCHANGED pureVars
    /\ beforeSort' = [filtered |-> filtered, field |-> sort.field]
    /\ sortRun' = IF lastEvent = Event("sort", field) /\ sortRun = 1 THEN 2 ELSE 1
    /\ UNCHANGED <<loadProgress, filterName>>

HeaderClick(field) == listening /\ headerClick(field)

\* keydown Enter while a header has the focus: activeElement.click().
KeyEnterOnHeader(field) == listening /\ headerClick(field)

\* Math.min(numRows - 1, newIndex): the lower clamp forgotten.
clampIndex_noLower(numRows, newIndex) ==
    IF numRows - 1 < newIndex THEN numRows - 1 ELSE newIndex

\* Math.max(0, Math.min(numRows - 1, newIndex))
clampIndex(numRows, newIndex) ==
    LET min == IF numRows - 1 < newIndex THEN numRows - 1 ELSE newIndex
    IN  IF 0 > min THEN 0 ELSE min

\* keydown ArrowDown / ArrowUp.
KeyArrow(key) ==
    /\ listening
    /\ LET direction == IF key = "ArrowDown" THEN 1 ELSE -1
           numRows == Len(filtered)
           newIndex == focusedRowIndex + direction
       IN  focusedRowIndex' = IF numRows = 0 THEN focusedRowIndex
                              ELSE clampIndex(numRows, newIndex)
    /\ lastEvent' = Event(key, "")
    /\ download' = <<>>
    /\ UNCHANGED pureVars
    /\ noSortHistory
    /\ UNCHANGED <<loadVars, filtered, sort, filterName, rows, noResultsDisplay>>

\* The click listener of the row rendered at position index.
RowClick(index) ==
    /\ listening
    /\ index \in 0..(rows - 1)
    /\ focusedRowIndex' = index
    /\ lastEvent' = Event("rowclick", "")
    /\ download' = <<>>
    /\ UNCHANGED pureVars
    /\ noSortHistory
    /\ UNCHANGED <<loadVars, filtered, sort, filterName, rows, noResultsDisplay>>

\* exportToCSV: reads state.filtered, writes no state; the CSV text goes to
\* the browser as a download.
ExportClick ==
    /\ listening
    /\ lastEvent' = Event("export", "")
    /\ download' = csvContent(episodes, filtered)
    /\ UNCHANGED pureVars
    /\ noSortHistory
    /\ UNCHANGED <<loadVars, filtered, sort, filterName, focusedRowIndex, rows,
                   noResultsDisplay>>

Next ==
    \/ DOMContentLoaded
    \/ \E i \in DATA_URLS, ok \in BOOLEAN : FetchResolve(i, ok)
    \/ \E i \in DATA_URLS : FetchReject(i)
    \/ \E i \in DATA_URLS, body \in Bodies : JsonResolve(i, body)
    \/ \E i \in DATA_URLS : JsonReject(i)
    \/ \E text \in FilterTexts : FilterInput(text)
    \/ \E field \in SortFields : HeaderClick(field)
    \/ \E field \in SortFields : KeyEnterOnHeader(field)
    \/ \E key \in {"ArrowDown", "ArrowUp"} : KeyArrow(key)
    \/ \E index \in 0..(rows - 1) : RowClick(index)
    \/ ExportClick

Spec == Init /\ [][Next]_vars

\* ================================================================== claims
\* The load has ended because a fetch rejected, a response was not ok or a
\* body was not valid JSON.
LoadFailed ==
    /\ pc = "done"
    /\ \E i \in DATA_URLS :
          fetchState[i] \in {"rejected", "notok"} \/ jsonState[i] = "rejected"

\* C1: once a failed load has finished (finally block included) the episodes
\* table is hidden and the error banner shows the user message with the
\* underlying detail.
C1_FailedLoadHidesTable ==
    LoadFailed =>
        /\ tableDisplay = "none"
        /\ errorDisplay = "block"
        /\ errorText.userMessage /\ errorText.details # NoDetail

\* C2: the focus index is always in [-1, len-1], len the length of
\* state.filtered; so it is -1 whenever nothing is visible.
C2_FocusIndexInRange ==
    /\ focusedRowIndex \in (-1)..(Len(filtered) - 1)
    /\ Len(filtered) = 0 => focusedRowIndex = -1

C2_Witness ==
    /\ lastEvent.kind = "rowclick"
    /\ Len(filtered) >= 2
    /\ focusedRowIndex = Len(filtered) - 1
    /\ filterName # <<>>

\* The five searched values of an episode are strings or absent.
TextFieldsStringOrAbsent(ep) ==
    \A v \in {ep.title, ep.doctor.actor, ep.companion.actor, ep.writer, ep.director} :
        v.t \in {"str", "undef"}

Visible(i) == \E k \in DOMAIN filtered : filtered[k] = i

\* A searched value, lower-cased, with the given text standing in when the
\* value is absent or empty.
SearchedText(v, whenAbsent) ==
    IF v.t = "str" /\ v.s # <<>> THEN toLowerCase(v.s) ELSE whenAbsent

\* The lower-cased filter text is a substring of one of the five searched
\* values, an absent actor counting as actorAbsent.
MatchesFilter(ep, actorAbsent) ==
    \E text \in {SearchedText(ep.title, <<>>),
                 SearchedText(ep.doctor.actor, actorAbsent),
                 SearchedText(ep.companion.actor, actorAbsent),
                 SearchedText(ep.writer, <<>>),
                 SearchedText(ep.director, <<>>)} :
        includes(text, toLowerCase(filterName))

\* C3 as stated: a record is visible iff the lower-cased filter text is a
\* substring of its title, doctor actor, companion actor, writer or director,
\* each taken as the empty string when absent.
C3_VisibleIffMatchAbsentEmpty ==
    (\A i \in DOMAIN episodes : TextFieldsStringOrAbsent(episodes[i])) =>
        \A i \in DOMAIN episodes : Visible(i) <=> MatchesFilter(episodes[i], <<>>)

\* C3 amended: as above, but an absent (or empty) doctor actor or companion
\* actor is searched as "n/a", the lower-cased 'N/A' of the formatters; title,
\* writer and director are the empty string when absent.
C3_VisibleIffMatchActorNA ==
    (\A i \in DOMAIN episodes : TextFieldsStringOrAbsent(episodes[i])) =>
        \A i \in DOMAIN episodes :
            Visible(i) <=> MatchesFilter(episodes[i], <<"n", "/", "a">>)

C3_Witness ==
    /\ pc = "done"
    /\ filterName = <<"T">>
    /\ \E i \in DOMAIN episodes : episodes[i] = EpDup /\ Visible(i)
    /\ \E i \in DOMAIN episodes : episodes[i] = EpEmpty /\ ~Visible(i)

\* C4: whenever loadEpisodes has finished, on any path, the loading
\* indicator is not displayed.
C4_LoadingClearedOnExit == pc = "done" => loadingDisplay = "none"

C4_Witness ==
    /\ pc = "done"
    /\ errorText.details = TypeErrorDetail
    /\ episodes # <<>>
    /\ loadingDisplay = "none"

\* C5: the sort state changes only on a header activation; activating the
\* header of the current field flips ascending, activating another header
\* makes it the field with ascending true.
C5_SortStateTransitions ==
    [][IF lastEvent'.kind = "sort"
       THEN sort' = IF lastEvent'.arg = sort.field
                    THEN [field |-> sort.field, ascending |-> ~sort.ascending]
                    ELSE [field |-> lastEvent'.arg, ascending |-> TRUE]
       ELSE sort' = sort]_vars

C5_Witness ==
    /\ lastEvent = Event("sort", "doctor")
    /\ sort = [field |-> "doctor", ascending |-> FALSE]
    /\ Len(filtered) >= 2

\* C6 as stated: activating the same header twice in a row returns
\* state.filtered to what it was before the first of the two activations.
C6_TwiceRestoresOrder ==
    [][(lastEvent.kind = "sort" /\ lastEvent' = lastEvent)
          => filtered' = beforeSort.filtered]_vars

\* C6 amended: activating twice in a row the header of the field that is the
\* sort field before the first activation returns state.filtered to what it
\* was before the first activation.
C6_TwiceOnActiveHeaderRestoresOrder ==
    [][(lastEvent.kind = "sort" /\ lastEvent' = lastEvent
            /\ beforeSort.field = lastEvent.arg)
          => filtered' = beforeSort.filtered]_vars

\* Two activations in a row of the active header, and the order between
\* them was another one.
C6_Witness ==
    /\ sortRun = 2
    /\ sort.field = lastEvent.arg
    /\ sort.ascending
    /\ Len(filtered) >= 3
    /\ beforeSort.filtered # filtered

\* C7: the sort is stable in both directions: visible records with equal
\* keys keep their dataset order, records with different keys are ordered by
\* the key comparison, reversed when descending.
C7_StableSort ==
    \A p, q \in DOMAIN filtered :
        p < q =>
            LET keyP == getSortValue(episodes[filtered[p]], sort.field)
                keyQ == getSortValue(episodes[filtered[q]], sort.field)
            IN  IF keyP = keyQ THEN filtered[p] < filtered[q]
                ELSE IF sort.ascending THEN KeyLess(keyP, keyQ)
                ELSE KeyLess(keyQ, keyP)

C7_Witness ==
    /\ ~sort.ascending
    /\ \E p, q \in DOMAIN filtered :
          /\ p < q
          /\ getSortValue(episodes[filtered[p]], sort.field)
                = getSortValue(episodes[filtered[q]], sort.field)
    /\ \E p, q \in DOMAIN filtered :
          /\ p < q
          /\ getSortValue(episodes[filtered[p]], sort.field)
                # getSortValue(episodes[filtered[q]], sort.field)

\* Every fetch succeeded and every body parsed to an object whose episodes
\* array holds episode objects with string-or-absent text fields.
AllSourcesDelivered ==
    /\ pc = "done"
    /\ \A i \in DATA_URLS :
          /\ fetchState[i] = "ok" /\ jsonState[i] = "parsed"
          /\ bodies[i].hasEpisodes
          /\ \A k \in DOMAIN bodies[i].episodes :
                /\ bodies[i].episodes[k].t = "obj"
                /\ TextFieldsStringOrAbsent(bodies[i].episodes[k])

\* Number of episodes the sources before source i carry.
RECURSIVE OffsetOf(_)
OffsetOf(i) == IF i = 1 THEN 0 ELSE OffsetOf(i - 1) + Len(bodies[i - 1].episodes)

\* C8: when every source delivers, whatever fields the records lack, the
\* dataset is the concatenation of the sources' episodes arrays in source
\* order and the load does not enter the error state.
C8_DatasetIsConcatenation ==
    AllSourcesDelivered =>
        /\ Len(episodes) = OffsetOf(NumSources) + Len(bodies[NumSources].episodes)
        /\ \A i \in DATA_URLS : \A k \in DOMAIN bodies[i].episodes :
              episodes[OffsetOf(i) + k] = bodies[i].episodes[k]
        /\ errorDisplay # "block"
        /\ ~errorText.userMessage

C8_Witness ==
    /\ AllSourcesDelivered
    /\ \E i \in DOMAIN episodes : episodes[i] = EpEmpty
    /\ episodes[1] = EpFull
    /\ warningsBanner >= 3

\* No body is parsed unless every fetch resolved ok; a rejected fetch or a
\* response that is not ok ends the load in the error state with the dataset
\* and the visible sequence empty.
FailFast ==
    /\ (\E i \in DATA_URLS : jsonState[i] # "none")
          => \A j \in DATA_URLS : fetchState[j] = "ok"
    /\ (pc = "done" /\ \E i \in DATA_URLS : fetchState[i] \in {"rejected", "notok"})
          => /\ errorDisplay = "block" /\ errorText.userMessage
             /\ episodes = <<>> /\ filtered = <<>>

\* C9 as stated: fail fast, and for a response that is not ok the error
\* detail names that response's URL and status text.
C9_DetailNamesEveryNotOk ==
    /\ FailFast
    /\ \A i \in DATA_URLS :
          (pc = "done" /\ fetchState[i] = "notok") => errorText.details = NotOk(i)

\* C9 amended: fail fast, and when no fetch rejected the error detail names
\* the URL and status text of the first response, in source-list order, that
\* is not ok.
C9_DetailNamesFirstNotOk ==
    /\ FailFast
    /\ \A i \in DATA_URLS :
          (/\ pc = "done"
           /\ fetchState[i] = "notok"
           /\ \A j \in DATA_URLS : fetchState[j] # "rejected"
           /\ \A j \in 1..(i - 1) : fetchState[j] # "notok")
          => errorText.details = NotOk(i)

C9_Witness ==
    /\ pc = "done"
    /\ \A j \in DATA_URLS : fetchState[j] = "notok"
    /\ errorText.details = NotOk(1)
    /\ filterName # <<>>
    /\ filtered = <<>>

\* C10: with n >= 1 visible records ArrowDown / ArrowUp moves the focus index
\* by +1 / -1 clamped to [0, n-1] (from -1 either key gives 0); with none
\* visible the index stays -1.
C10_ArrowKeysClamp ==
    [][lastEvent'.kind \in {"ArrowDown", "ArrowUp"} =>
          LET n == Len(filtered)
              target == focusedRowIndex
                          + (IF lastEvent'.kind = "ArrowDown" THEN 1 ELSE -1)
          IN  IF n = 0 THEN focusedRowIndex' = -1 /\ focusedRowIndex = -1
              ELSE IF focusedRowIndex = -1 THEN focusedRowIndex' = 0
              ELSE IF target < 0 THEN focusedRowIndex' = 0
              ELSE IF target > n - 1 THEN focusedRowIndex' = n - 1
              ELSE focusedRowIndex' = target]_vars

C10_Witness ==
    /\ lastEvent.kind = "ArrowDown"
    /\ Len(filtered) >= 3
    /\ focusedRowIndex = Len(filtered) - 1

\* =========================================================================
\* Utility functions called on their own: the page stays as it is before
\* DOMContentLoaded, call holds the arguments, result what was returned.
pageVars == <<pc, fetchState, jsonState, bodies, episodes, filtered, sort,
              filterName, focusedRowIndex, rows, loadingDisplay, tableDisplay,
              errorDisplay, errorText, warningsBanner, noResultsDisplay,
              lastEvent, beforeSort, sortRun, download>>

\* ------------------------------------------------ the filter, on two texts
\* Longest filter text before characters are appended.
MaxTextLen == 2
\* Most characters appended to it.
MaxAppendLen == 1

TypedChars == {"A", "Σ", "n"}

RECURSIVE TypedUpTo(_)
TypedUpTo(k) == IF k = 0 THEN {<<>>}
                ELSE TypedUpTo(k - 1)
                        \cup {Append(t, c) : t \in TypedUpTo(k - 1), c \in TypedChars}

\* An episode with a title and nothing else.
EpTitled(title) == Episode(Undef, Str(title), Undef, Undef, Undef, Undef, Undef,
                           NoPerson, NoPerson, Undef)

FilterDatasets ==
    LET pool == {EpTitled(<<"a", "σ", "a">>), EpTitled(<<"a", "ς">>), EpFull, EpEmpty}
    IN  {<<e>> : e \in pool} \cup {<<e1, e2>> : e1 \in pool, e2 \in pool}

InitFilter ==
    /\ InitPage
    /\ call \in [fn : {"filter"}, eps : FilterDatasets, text : TypedUpTo(MaxTextLen),
                 appended : TypedUpTo(MaxAppendLen) \ {<<>>}]
    /\ result = NotRun

\* applyFiltersAndSort's visible sequence for the dataset under the text, and
\* under the text with the characters appended (default sort).
RunFilter ==
    /\ ~result.ran
    /\ result' = Returned(
          [under |-> processedData(call.eps, call.text,
                                   [field |-> "rank", ascending |-> TRUE]),
           underLonger |-> processedData(call.eps, call.text \o call.appended,
                                         [field |-> "rank", ascending |-> TRUE])])
    /\ UNCHANGED <<pageVars, call>>

SpecFilter == InitFilter /\ [][RunFilter]_vars

\* C11: filtering is monotonic: every record visible under a filter text
\* with characters appended is visible under the text itself, so the count
\* never grows.
C11_FilterMonotonic ==
    result.ran =>
        /\ \A k \in DOMAIN result.value.underLonger :
              \E j \in DOMAIN result.value.under :
                  result.value.under[j] = result.value.underLonger[k]
        /\ Len(result.value.underLonger) <= Len(result.value.under)

\* ------------------------------------------------------------ validateData
\* Longest record sequence handed to the validator.
MaxValidateLen == 3

EpRanked(rank) == Episode(rank, Undef, Undef, Undef, Undef, Undef, Undef,
                          NoPerson, NoPerson, Undef)

RankedPool == {EpRanked(Num(5)), EpRanked(Num(7)), EpRanked(Undef),
               EpRanked(Str(<<"5">>))}

RECURSIVE RankedUpTo(_)
RankedUpTo(k) == IF k = 0 THEN {<<>>}
                 ELSE RankedUpTo(k - 1)
                        \cup {Append(q, e) : q \in RankedUpTo(k - 1), e \in RankedPool}

InitValidate ==
    /\ InitPage
    /\ call \in [fn : {"validateData"}, eps : RankedUpTo(MaxValidateLen)]
    /\ result = NotRun

RunValidate ==
    /\ ~result.ran
    /\ result' = Returned(validateData(call.eps))
    /\ UNCHANGED <<pageVars, call>>

SpecValidate == InitValidate /\ [][RunValidate]_vars

\* The warnings of a rule that name the record at position i (index i - 1).
WarningsFor(rule, i) ==
    {k \in DOMAIN result.value :
        result.value[k].rule = rule /\ result.value[k].index = i - 1}

\* C12: in one pass every occurrence of a numeric rank after the first gets
\* exactly one duplicate-rank warning naming that record (k occurrences, k-1
\* warnings), the first gets none, and a record whose rank is not a number
\* gets an invalid-rank warning and is never counted as seen.
C12_DuplicateRankWarnings ==
    result.ran =>
        \A i \in DOMAIN call.eps :
            LET rank == call.eps[i].rank
                seenBefore == \E j \in 1..(i - 1) : call.eps[j].rank = rank
            IN  IF rank.t = "num"
                THEN /\ WarningsFor("invalidRank", i) = {}
                     /\ Cardinality(WarningsFor("duplicateRank", i))
                            = IF seenBefore THEN 1 ELSE 0
                     /\ \A k \in WarningsFor("duplicateRank", i) :
                            result.value[k].detail = toString(rank)
                ELSE /\ Cardinality(WarningsFor("invalidRank", i)) = 1
                     /\ WarningsFor("duplicateRank", i) = {}

C12_Witness ==
    /\ result.ran
    /\ Len(call.eps) = 3
    /\ call.eps[1].rank = Str(<<"5">>)
    /\ call.eps[2].rank = Num(5) /\ call.eps[3].rank = Num(5)
    /\ WarningsFor("duplicateRank", 2) = {}
    /\ WarningsFor("duplicateRank", 3) # {}

\* -------------------------------------------------------------- the export
\* An RFC 4180 reader.  A separator counts when it is outside quotes, that
\* is when an even number of double quotes precedes it.
Separators(chars, sep) ==
    LET quotes == {j \in DOMAIN chars : chars[j] = "\""}
    IN  {i \in DOMAIN chars :
            /\ chars[i] = sep
            /\ Cardinality({j \in quotes : j < i}) % 2 = 0}

\* The pieces of chars between the separators.
Split(chars, sep) ==
    LET at == Separators(chars, sep)
        pos(k) == IF k = 0 THEN 0
                  ELSE IF k > Cardinality(at) THEN Len(chars) + 1
                  ELSE CHOOSE i \in at : Cardinality({j \in at : j < i}) = k - 1
    IN  [k \in 1..(Cardinality(at) + 1) |-> SubSeq(chars, pos(k - 1) + 1, pos(k) - 1)]

\* Each doubled quote replaced by one quote.
RECURSIVE Undouble(_)
Undouble(chars) ==
    IF chars = <<>> THEN <<>>
    ELSE IF Len(chars) >= 2 /\ chars[1] = "\"" /\ chars[2] = "\""
    THEN <<"\"">> \o Undouble(SubSeq(chars, 3, Len(chars)))
    ELSE <<chars[1]>> \o Undouble(Tail(chars))

\* RFC 4180 un-escaping of one field: the enclosing quotes stripped if
\* present, doubled quotes undone.
Unescape(chars) ==
    IF Len(chars) >= 2 /\ chars[1] = "\"" /\ chars[Len(chars)] = "\""
    THEN Undouble(SubSeq(chars, 2, Len(chars) - 1))
    ELSE chars

\* The records of a CSV text, each a sequence of un-escaped fields.
ReadCSV(chars) ==
    LET lines == Split(chars, "\n")
    IN  [r \in DOMAIN lines |->
            LET fields == Split(lines[r], ",")
            IN  [c \in DOMAIN fields |-> Unescape(fields[c])]]

\* The text a value shows as: empty when absent, decimal for a number.
ShownText(v) == IF v.t = "undef" THEN <<>>
                ELSE IF v.t = "str" THEN v.s
                ELSE NatToString(v.n)

\* "actor (secondary)", 'N/A' standing in for a missing part.
ShownPerson(p) ==
    IF p.actor.t = "undef" \/ p.actor = Str(<<>>) THEN <<"N", "/", "A">>
    ELSE ShownText(p.actor) \o <<" ", "(">>
            \o (IF p.secondary.t = "undef" \/ p.secondary = Str(<<>>)
                    \/ p.secondary = Num(0)
                THEN <<"N", "/", "A">> ELSE ShownText(p.secondary))
            \o <<")">>

\* The ten columns of a record: rank, title, series, era, year, director,
\* writer, doctor with incarnation, companion with character, cast count.
\* (The dates of the bodies are absent or the four digits of a year from 1000 on.)
ExpectedColumns(ep) ==
    <<ShownText(ep.rank), ShownText(ep.title),
      IF ep.series.t = "num" /\ ep.series.n < 0
      THEN <<"-">> \o NatToString(-ep.series.n) ELSE ShownText(ep.series),
      ShownText(ep.era),
      IF ep.broadcast_date.t = "undef" THEN <<"N", "/", "A">> ELSE ep.broadcast_date.s,
      ShownText(ep.director), ShownText(ep.writer),
      ShownPerson(ep.doctor), ShownPerson(ep.companion),
      IF ep.cast.t = "undef" THEN <<"0">> ELSE NatToString(ep.cast.n)>>

HeaderNames == <<<<"R", "a", "n", "k">>, <<"T", "i", "t", "l", "e">>,
                 <<"S", "e", "r", "i", "e", "s">>, <<"E", "r", "a">>,
                 <<"Y", "e", "a", "r">>,
                 <<"D", "i", "r", "e", "c", "t", "o", "r">>,
                 <<"W", "r", "i", "t", "e", "r">>,
                 <<"D", "o", "c", "t", "o", "r">>,
                 <<"C", "o", "m", "p", "a", "n", "i", "o", "n">>,
                 <<"C", "a", "s", "t", " ", "C", "o", "u", "n", "t">>>>

\* C13: an export serializes the visible sequence: the CSV reads back as the
\* 10-column header and one 10-column record per visible record, the i-th
\* from the i-th visible record, and the export changes none of the dataset,
\* filter text, sort state, visible sequence and focus index.
C13_ExportSerializesVisible ==
    /\ [][lastEvent'.kind = "export" =>
             UNCHANGED <<episodes, filterName, sort, filtered, focusedRowIndex>>]_vars
    /\ [](lastEvent.kind = "export" =>
             LET records == ReadCSV(download)
             IN  /\ Len(records) = 1 + Len(filtered)
                 /\ \A r \in DOMAIN records : Len(records[r]) = 10
                 /\ records[1] = HeaderNames
                 /\ \A k \in DOMAIN filtered :
                       records[k + 1] = ExpectedColumns(episodes[filtered[k]]))

C13_Witness ==
    /\ lastEvent.kind = "export"
    /\ download # <<>>
    /\ Len(filtered) >= 2
    /\ Len(filtered) < Len(episodes)
    /\ filtered[1] > filtered[2]
    /\ \E k \in DOMAIN filtered : episodes[filtered[k]] = EpFull

\* ------------------------------------------------- normalizeDate, getYear
YearDigits == {"0", "1", "9"}

InitDate ==
    /\ InitPage
    /\ call \in [fn : {"normalizeDate"},
                 dateStr : {Str(<<a, b, c, d>>) : a \in YearDigits, b \in YearDigits,
                                                  c \in YearDigits, d \in YearDigits}]
    /\ result = NotRun

RunDate ==
    /\ ~result.ran
    /\ result' = Returned([date |-> normalizeDate(call.dateStr),
                           year |-> getYear(call.dateStr)])
    /\ UNCHANGED <<pageVars, call>>

SpecDate == InitDate /\ [][RunDate]_vars

\* The number four decimal digits denote.
DenotedYear(chars) ==
    LET val(c) == CHOOSE k \in 0..9 : NatToString(k) = <<c>>
    IN  val(chars[1]) * 1000 + val(chars[2]) * 100 + val(chars[3]) * 10 + val(chars[4])

\* C14: for every string of exactly four decimal digits normalizeDate
\* returns January 1 of the year the digits denote and getYear returns that
\* year number.
C14_FourDigitsGiveThatYear ==
    result.ran =>
        /\ result.value.date = [isDate |-> TRUE, year |-> DenotedYear(call.dateStr.s),
                                month |-> 0, day |-> 1]
        /\ result.value.year = Num(DenotedYear(call.dateStr.s))

\* ---------------------------------------------------------------- escapeCSV
\* Longest value handed to escapeCSV.
MaxValueLen == 3

ValueChars == {",", "\"", "\n", "a"}

RECURSIVE ValuesUpTo(_)
ValuesUpTo(k) == IF k = 0 THEN {<<>>}
                 ELSE ValuesUpTo(k - 1)
                        \cup {Append(t, c) : t \in ValuesUpTo(k - 1), c \in ValueChars}

InitEscape ==
    /\ InitPage
    /\ call \in [fn : {"escapeCSV"},
                 value : {Undef} \cup {Str(t) : t \in ValuesUpTo(MaxValueLen)}]
    /\ result = NotRun

RunEscape ==
    /\ ~result.ran
    /\ result' = Returned(escapeCSV(call.value))
    /\ UNCHANGED <<pageVars, call>>

SpecEscape == InitEscape /\ [][RunEscape]_vars

\* C15: escapeCSV followed by RFC 4180 un-escaping gives the string back; a
\* value without comma, quote and newline is returned as it is; null and
\* undefined give the empty string.
C15_EscapeRoundTrip ==
    result.ran =>
        IF call.value.t = "undef" THEN result.value = <<>>
        ELSE /\ Unescape(result.value) = call.value.s
             /\ (\A i \in DOMAIN call.value.s : call.value.s[i] = "a")
                    => result.value = call.value.s

C15_Witness ==
    /\ result.ran
    /\ call.value = Str(<<",", "\"", "\n">>)
    /\ result.value = <<"\"", ",", "\"", "\"", "\n", "\"">>

\* ------------------------------------------------------------ getSortValue
SortKeyFields == {"rank", "series", "title", "cast_count"}

KeyValues == {Undef, Num(0), Num(5), Num(12), Str(<<>>), Str(<<"A">>),
              Str(<<"T", "a">>)}

InitSortValue ==
    /\ InitPage
    /\ call \in [fn : {"getSortValue"}, field : SortKeyFields, value : KeyValues,
                 cast : {Undef, Arr(0), Arr(2)}]
    /\ result = NotRun

\* getSortValue on an episode whose rank, series and title hold the value.
RunSortValue ==
    /\ ~result.ran
    /\ result' = Returned(getSortValue(
          Episode(call.value, call.value, call.value, Undef, Undef, Undef, Undef,
                  NoPerson, NoPerson, call.cast),
          call.field))
    /\ UNCHANGED <<pageVars, call>>

SpecSortValue == InitSortValue /\ [][RunSortValue]_vars

\* C18: for rank, series, title the sort key is the field value as a
\* lower-cased string whenever the field is present, the number 0 included
\* (key "0"), and the empty string when it is absent; the key of cast_count
\* is the cast length, 0 without a cast.
C18_SortKeyOfPresentValue ==
    result.ran =>
        IF call.field = "cast_count"
        THEN result.value = Num(IF call.cast.t = "undef" THEN 0 ELSE call.cast.n)
        ELSE result.value = Str(toLowerCase(ShownText(call.value)))

\* --------------------------------------------------- view, focus, dataset
\* seq is eps restricted to the records matching the filter text name (an
\* absent actor searched as "n/a"), each once, ordered by the key of srt,
\* reversed when descending, records with equal keys in dataset order.
IsFilteredSorted(seq, eps, name, srt) ==
    /\ \A k \in DOMAIN seq : seq[k] \in DOMAIN eps
    /\ \A i \in DOMAIN eps :
          (\E k \in DOMAIN seq : seq[k] = i)
             <=> \E v \in {eps[i].title, eps[i].writer, eps[i].director} \cup
                          {(IF Falsy(a) THEN NA ELSE a) :
                               a \in {eps[i].doctor.actor, eps[i].companion.actor}} :
                    v.t = "str" /\ includes(toLowerCase(v.s), toLowerCase(name))
    /\ \A p, q \in DOMAIN seq :
          p < q =>
             LET keyP == getSortValue(eps[seq[p]], srt.field)
                 keyQ == getSortValue(eps[seq[q]], srt.field)
             IN  IF keyP = keyQ THEN seq[p] < seq[q]
                 ELSE IF srt.ascending THEN KeyLess(keyP, keyQ)
                 ELSE KeyLess(keyQ, keyP)

\* C16: after every handler (load, filter change, header activation, arrow
\* key, row click, export) state.filtered is state.episodes restricted to the
\* records matching the current filter text, stably ordered by the current
\* sort field and direction.
C16_VisibleNeverStale ==
    (\A i \in DOMAIN episodes : TextFieldsStringOrAbsent(episodes[i])) =>
        IsFilteredSorted(filtered, episodes, filterName, sort)

C16_Witness ==
    /\ lastEvent.kind \in {"ArrowDown", "ArrowUp", "rowclick", "export"}
    /\ filterName # <<>>
    /\ sort = [field |-> "doctor", ascending |-> FALSE]
    /\ Len(filtered) >= 2
    /\ Len(filtered) < Len(episodes)
    /\ \E k \in DOMAIN filtered : k < Len(filtered) /\ filtered[k] > filtered[k + 1]

\* C17: a filter-text change and a header activation leave the focus index
\* at -1 whatever row was focused before; the index becomes non-negative
\* again only through an arrow key or a row click.
C17_RecomputationResetsFocus ==
    [][/\ lastEvent'.kind \in {"input", "sort"} => focusedRowIndex' = -1
       /\ (focusedRowIndex < 0 /\ focusedRowIndex' >= 0)
             => lastEvent'.kind \in {"ArrowDown", "ArrowUp", "rowclick"}]_vars

C17_Witness ==
    /\ lastEvent = Event("input", "focused")
    /\ focusedRowIndex = -1
    /\ Len(filtered) >= 2

\* C19: once the load has ended no event changes state.episodes: length,
\* records and order stay as loaded.
C19_DatasetImmutableAfterLoad ==
    [][pc = "done" => episodes' = episodes]_vars

C19_Witness ==
    /\ pc = "done"
    /\ lastEvent.kind = "sort"
    /\ ~sort.ascending
    /\ Len(filtered) = Len(episodes)
    /\ \E k \in DOMAIN filtered : filtered[k] # k

\* C20: when a load succeeds after the filter text or the sort was changed
\* while it was pending, the first view is computed with the filter text and
\* sort state of that moment: it is the full dataset filtered and sorted by
\* them, the focus index is -1, and the load changes neither of them.
C20_LoadUsesCurrentFilterAndSort ==
    [][(pc # "done" /\ AllSourcesDelivered')
          => /\ filterName' = filterName
             /\ sort' = sort
             /\ focusedRowIndex' = -1
             /\ IsFilteredSorted(filtered', episodes', filterName, sort)]_vars

C20_Witness ==
    /\ AllSourcesDelivered
    /\ lastEvent.kind = "load"
    /\ filterName # <<>>
    /\ sort = [field |-> "doctor", ascending |-> FALSE]
    /\ Len(filtered) >= 2
    /\ Len(filtered) < Len(episodes)
    /\ filtered[1] > filtered[2]

====
